---- MODULE Spec2Model ----
(***************************************************************************)
(* Task Manager API (app/backend/app.py): the Flask handlers over the two  *)
(* SQLite tables `task` and `category`.                                    *)
(*                                                                         *)
(* Text that is only compared for equality (priority, category, colours,   *)
(* date strings, error messages) is a TLA+ string, with None the Python    *)
(* None.  Text that is searched (title, description, the search argument)  *)
(* is a tuple of one-character strings, with NoneSeq the Python None.      *)
(* Datetimes of the clock are natural numbers; due dates are the strings   *)
(* datetime.isoformat() prints.                                            *)
(***************************************************************************)
EXTENDS Integers, Sequences, FiniteSets, TLC

VARIABLES
    tasks,        \* rows of table task (class Task)
    categories,   \* rows of table category (class Category)
    now,          \* datetime.utcnow()
    up,           \* the module has been imported and the app serves requests
    assigned,     \* history: every id a committed INSERT INTO task was given
    req,          \* the request answered last (flask.request)
    resp          \* the response sent for it (jsonify(...), status)

vars == <<tasks, categories, now, up, assigned, req, resp>>

\* Bounds of the model: the clock readings a run sees (each request that
\* writes is answered at a later reading than the one before it), and the
\* largest id a request names.
MaxClock == 4
MaxId == 3

None == "None"
NoneSeq == <<"None">>

\* Python truthiness of an optional str.
Truthy(s) == s # None /\ s # ""

\* Python truthiness of an optional searched str.
TruthySeq(s) == s # NoneSeq /\ Len(s) > 0

-----------------------------------------------------------------------------
\* Request bodies: request.get_json() is None (json = FALSE) or a dict with
\* the keys `keys`; val holds the values of the keys that are present.

NoVal ==
    [title |-> NoneSeq, description |-> NoneSeq, completed |-> FALSE,
     priority |-> None, category |-> None, due_date |-> None,
     name |-> None, color |-> None]

NoBody == [json |-> FALSE, keys |-> {}, val |-> NoVal]

Body(keys, val) == [json |-> TRUE, keys |-> keys, val |-> val]

\* `not data`
Falsy(data) == ~data.json \/ data.keys = {}

\* data.get(k, default)
Get(data, k, default) == IF k \in data.keys THEN data.val[k] ELSE default

NoArgs == [category |-> None, priority |-> None, completed |-> None, search |-> NoneSeq]

Request(op, id, data, args) == [op |-> op, id |-> id, data |-> data, args |-> args]

NoStats == [total_tasks |-> 0, completed_tasks |-> 0, pending_tasks |-> 0, completion_rate |-> 0]

\* jsonify({...}), status
Response(status, error) ==
    [status |-> status, success |-> status < 400, error |-> error,
     count |-> 0, tasks |-> <<>>, stats |-> NoStats, categories |-> {}]

-----------------------------------------------------------------------------
\* datetime.fromisoformat(s.replace('Z', '+00:00')) over the date strings of
\* the model; "ValueError" when the string is no ISO-8601 date.
ReplaceZ(s) ==
    IF s = "2024-01-01T10:00:00Z" THEN "2024-01-01T10:00:00+00:00" ELSE s

FromIsoformat(s) ==
    CASE s = "2024-01-01" -> "2024-01-01T00:00:00"
      [] s = "2024-01-01T10:00:00+00:00" -> "2024-01-01T10:00:00+00:00"
      [] OTHER -> "ValueError"

\* The SQLite DateTime column keeps no UTC offset.
StoreDateTime(d) ==
    IF d = "2024-01-01T10:00:00+00:00" THEN "2024-01-01T10:00:00" ELSE d

Ids(ts) == {t.id : t \in ts}

Max(S) == CHOOSE x \in S : \A y \in S : y <= x

\* INTEGER PRIMARY KEY of SQLite without AUTOINCREMENT: one more than the
\* largest rowid in the table.
NextRowid(rows) == IF rows = {} THEN 1 ELSE Max(Ids(rows)) + 1

\* Task.to_dict
ToDict(t) ==
    [id |-> t.id, title |-> t.title, description |-> t.description,
     completed |-> t.completed, priority |-> t.priority, category |-> t.category,
     due_date |-> IF Truthy(t.due_date) THEN t.due_date ELSE None,
     created_at |-> t.created_at, updated_at |-> t.updated_at]

-----------------------------------------------------------------------------
\* with app.app_context(): db.create_all(); seed

DefaultCategories ==
    << [name |-> "Work", color |-> "#3B82F6"],
       [name |-> "Personal", color |-> "#10B981"],
       [name |-> "Shopping", color |-> "#F59E0B"],
       [name |-> "Health", color |-> "#EF4444"],
       [name |-> "General", color |-> "#6B7280"] >>

\* Variant: the seed guard inverted.
SeedNeededInverted(cats) == Cardinality(cats) # 0

SeedNeeded(cats) == Cardinality(cats) = 0

Names(cats) == {c.name : c \in cats}

RECURSIVE AddAll(_, _, _)
AddAll(cats, new, t) ==
    IF new = <<>> THEN cats
    ELSE AddAll(cats \cup {[id |-> NextRowid(cats), name |-> Head(new).name,
                            color |-> Head(new).color, created_at |-> t]},
                Tail(new), t)

Startup ==
    /\ req' = Request("startup", 0, NoBody, NoArgs)
    /\ resp' = Response(0, "")
    /\ up' = TRUE
    /\ categories' = IF SeedNeeded(categories)
                     THEN AddAll(categories, DefaultCategories, now)
                     ELSE categories
    /\ UNCHANGED <<tasks, now, assigned>>

-----------------------------------------------------------------------------
\* GET /api/stats

\* Variant: counts the tasks that are not completed.
StatsCompletedInverted(ts) == Cardinality({t \in ts : t.completed = FALSE})

\* Task.query.filter_by(completed=True).count()
StatsCompleted(ts) == Cardinality({t \in ts : t.completed = TRUE})

\* round(n / d * 100, 2) in hundredths of a percent (round half to even).
Round2(n, d) ==
    LET q == (n * 10000) \div d
        r == (n * 10000) % d
    IN  IF 2 * r > d THEN q + 1
        ELSE IF 2 * r < d THEN q
        ELSE IF q % 2 = 0 THEN q ELSE q + 1

CompletionRate(completed, total) == IF total > 0 THEN Round2(completed, total) ELSE 0

stats ==
    /\ up
    /\ req' = Request("stats", 0, NoBody, NoArgs)
    /\ LET total == Cardinality(tasks)
           completed == StatsCompleted(tasks)
           pending == total - completed
       IN  resp' = [Response(200, "") EXCEPT !.stats =
                       [total_tasks |-> total, completed_tasks |-> completed,
                        pending_tasks |-> pending,
                        completion_rate |-> CompletionRate(completed, total)]]
    /\ UNCHANGED <<tasks, categories, now, up, assigned>>

-----------------------------------------------------------------------------
\* POST /api/tasks.  created_at and updated_at take their column defaults
\* (datetime.utcnow) in the one INSERT, read here as one clock reading.

Titled(title) == Body({"title"}, [NoVal EXCEPT !.title = title])

FullBody ==
    Body({"title", "description", "priority", "category", "due_date"},
         [NoVal EXCEPT !.title = <<"A", "b">>, !.description = <<"b">>,
                       !.priority = "high", !.category = "Work",
                       !.due_date = "2024-01-01T10:00:00Z"])

\* A description of null and a category of "".
BlankBody ==
    Body({"title", "description", "category"},
         [NoVal EXCEPT !.title = <<"b">>, !.description = NoneSeq, !.category = ""])

CreateBodies ==
    { NoBody,
      Body({}, NoVal),
      Titled(NoneSeq),
      Titled(<<"a">>),
      FullBody,
      Body({"title", "category", "due_date"},
           [NoVal EXCEPT !.title = <<"b">>, !.category = "", !.due_date = "tomorrow"]),
      Body({"title", "description", "priority", "due_date"},
           [NoVal EXCEPT !.title = <<>>, !.description = <<"b">>,
                         !.priority = "high", !.due_date = "2024-01-01"]),
      Body({"description", "category", "due_date"},
           [NoVal EXCEPT !.description = <<"b">>, !.category = "Work",
                         !.due_date = "tomorrow"]) }

\* Variant: an empty or null title passes the validation.
TitleMissingOnlyAbsent(data) == Falsy(data) \/ "title" \notin data.keys

\* not data or not data.get('title')
TitleMissing(data) == Falsy(data) \/ ~TruthySeq(Get(data, "title", NoneSeq))

create_task(data) ==
    /\ up
    /\ now < MaxClock
    /\ now' = now + 1
    /\ req' = Request("create_task", 0, data, NoArgs)
    /\ IF TitleMissing(data)
       THEN /\ resp' = Response(400, "Title is required")
            /\ UNCHANGED <<tasks, assigned>>
       ELSE LET raw == Get(data, "due_date", None)
                parsed == IF Truthy(raw) THEN FromIsoformat(ReplaceZ(raw)) ELSE None
            IN  IF parsed = "ValueError"
                THEN /\ resp' = Response(400, "Invalid date format")
                     /\ UNCHANGED <<tasks, assigned>>
                ELSE LET task == [id |-> NextRowid(tasks),
                                  title |-> data.val.title,
                                  description |-> Get(data, "description", <<>>),
                                  completed |-> FALSE,
                                  priority |-> Get(data, "priority", "medium"),
                                  category |-> Get(data, "category", "general"),
                                  due_date |-> StoreDateTime(parsed),
                                  created_at |-> now,
                                  updated_at |-> now]
                     IN  /\ tasks' = tasks \cup {task}
                         /\ assigned' = assigned \cup {task.id}
                         /\ resp' = [Response(201, "") EXCEPT !.tasks = <<ToDict(task)>>]
    /\ UNCHANGED <<categories, up>>

-----------------------------------------------------------------------------
\* PUT /api/tasks/<id>

Completed == Body({"completed"}, [NoVal EXCEPT !.completed = TRUE])

UpdateBodies ==
    { NoBody,
      Completed,
      Titled(<<>>),
      Titled(NoneSeq),
      Body({"title", "description", "completed", "priority", "category", "due_date"},
           [NoVal EXCEPT !.title = <<"a">>, !.description = <<"A">>,
                         !.completed = TRUE, !.priority = "low",
                         !.category = "Home", !.due_date = "tomorrow"]),
      Body({"due_date"}, [NoVal EXCEPT !.due_date = None]),
      Body({"title", "due_date"},
           [NoVal EXCEPT !.title = <<"b">>, !.due_date = "2024-01-01"]) }

\* Variant: a full replace, absent keys falling back to the column defaults.
FullReplace(task, data, t) ==
    [id |-> task.id,
     title |-> Get(data, "title", NoneSeq),
     description |-> Get(data, "description", <<>>),
     completed |-> Get(data, "completed", FALSE),
     priority |-> Get(data, "priority", "medium"),
     category |-> Get(data, "category", "general"),
     due_date |-> IF Truthy(Get(data, "due_date", None))
                  THEN StoreDateTime(FromIsoformat(ReplaceZ(data.val.due_date)))
                  ELSE None,
     created_at |-> task.created_at,
     updated_at |-> t]

\* The assignments of update_task up to task.updated_at = utcnow(), for a
\* body whose keys raise nothing.
Assign(task, data, t) ==
    [id |-> task.id,
     title |-> Get(data, "title", task.title),
     description |-> Get(data, "description", task.description),
     completed |-> Get(data, "completed", task.completed),
     priority |-> Get(data, "priority", task.priority),
     category |-> Get(data, "category", task.category),
     due_date |-> IF "due_date" \in data.keys
                  THEN IF Truthy(data.val.due_date)
                       THEN StoreDateTime(FromIsoformat(ReplaceZ(data.val.due_date)))
                       ELSE None
                  ELSE task.due_date,
     created_at |-> task.created_at,
     updated_at |-> t]

\* The exception update_task's try block raises, "" when it raises none.
UpdateRaises(ts, task_id, data) ==
    IF task_id \notin Ids(ts)
        THEN "404 Not Found"                       \* get_or_404 aborts
    ELSE IF ~data.json
        THEN "TypeError"                           \* 'title' in None
    ELSE IF "due_date" \in data.keys /\ Truthy(data.val.due_date)
            /\ FromIsoformat(ReplaceZ(data.val.due_date)) = "ValueError"
        THEN "ValueError"                          \* fromisoformat
    ELSE IF "title" \in data.keys /\ data.val.title = NoneSeq
        THEN "IntegrityError"                      \* title is nullable=False
    ELSE ""

update_task(task_id, data) ==
    /\ up
    /\ now < MaxClock
    /\ now' = now + 1
    /\ req' = Request("update_task", task_id, data, NoArgs)
    /\ LET e == UpdateRaises(tasks, task_id, data)
       IN  IF e # ""
           THEN \* except Exception: db.session.rollback()
                /\ resp' = Response(500, e)
                /\ tasks' = tasks
           ELSE LET old == CHOOSE t \in tasks : t.id = task_id
                    task == Assign(old, data, now)
                IN  /\ tasks' = (tasks \ {old}) \cup {task}
                    /\ resp' = [Response(200, "") EXCEPT !.tasks = <<ToDict(task)>>]
    /\ UNCHANGED <<categories, up, assigned>>

-----------------------------------------------------------------------------
\* DELETE /api/tasks/<id>

delete_task(task_id) ==
    /\ up
    /\ now < MaxClock
    /\ now' = now + 1
    /\ req' = Request("delete_task", task_id, NoBody, NoArgs)
    /\ IF task_id \notin Ids(tasks)
       THEN \* get_or_404 aborts inside the try block
            /\ resp' = Response(500, "404 Not Found")
            /\ tasks' = tasks
       ELSE /\ tasks' = {t \in tasks : t.id # task_id}
            /\ resp' = Response(200, "")
    /\ UNCHANGED <<categories, up, assigned>>

TaskIds == 1 .. MaxId

-----------------------------------------------------------------------------
\* GET /api/tasks

Lower(c) == CASE c = "A" -> "a" [] c = "B" -> "b" [] OTHER -> c

\* x LIKE pattern of SQLite: % is any run of characters, _ any one character,
\* letters compare without case.
RECURSIVE Like(_, _)
Like(x, pattern) ==
    IF pattern = <<>> THEN x = <<>>
    ELSE IF Head(pattern) = "%"
        THEN Like(x, Tail(pattern)) \/ (x # <<>> /\ Like(Tail(x), pattern))
    ELSE IF x = <<>> THEN FALSE
    ELSE IF Head(pattern) = "_" THEN Like(Tail(x), Tail(pattern))
    ELSE Lower(Head(x)) = Lower(Head(pattern)) /\ Like(Tail(x), Tail(pattern))

\* column.contains(search): column LIKE '%' || search || '%', NULL for a NULL
\* column, which selects no row.
Contains(column, search) ==
    column # NoneSeq /\ Like(column, <<"%">> \o search \o <<"%">>)

\* completed.lower() == 'true'
CompletedBool(completed) == completed \in {"true", "True"}

\* Variant: the priority filter is dropped.
QueryWithoutPriority(ts, args) ==
    LET q1 == IF Truthy(args.category)
              THEN {t \in ts : t.category = args.category} ELSE ts
        q3 == IF args.completed # None
              THEN {t \in q1 : t.completed = CompletedBool(args.completed)} ELSE q1
    IN  IF TruthySeq(args.search)
        THEN {t \in q3 : Contains(t.title, args.search)
                            \/ Contains(t.description, args.search)}
        ELSE q3

\* The query get_tasks builds from request.args.
Query(ts, args) ==
    LET q1 == IF Truthy(args.category)
              THEN {t \in ts : t.category = args.category} ELSE ts
        q2 == IF Truthy(args.priority)
              THEN {t \in q1 : t.priority = args.priority} ELSE q1
        q3 == IF args.completed # None
              THEN {t \in q2 : t.completed = CompletedBool(args.completed)} ELSE q2
    IN  IF TruthySeq(args.search)
        THEN {t \in q3 : Contains(t.title, args.search)
                            \/ Contains(t.description, args.search)}
        ELSE q3

\* order_by(Task.created_at.desc()).all()
RECURSIVE OrderByCreatedDesc(_)
OrderByCreatedDesc(ts) ==
    IF ts = {} THEN <<>>
    ELSE LET first == CHOOSE t \in ts : \A u \in ts :
                          \/ u.created_at < t.created_at
                          \/ u.created_at = t.created_at /\ u.id >= t.id
         IN  <<first>> \o OrderByCreatedDesc(ts \ {first})

ToDicts(seq) == [i \in 1 .. Len(seq) |-> ToDict(seq[i])]

Args(category, priority, completed, search) ==
    [category |-> category, priority |-> priority, completed |-> completed,
     search |-> search]

ListArgs ==
    { NoArgs,
      Args("Work", None, None, NoneSeq),
      Args("", None, None, NoneSeq),
      Args(None, "high", None, NoneSeq),
      Args(None, "", None, <<>>),
      Args(None, None, "true", NoneSeq),
      Args(None, None, "false", NoneSeq),
      Args(None, None, "True", NoneSeq),
      Args(None, None, None, <<"b">>),
      Args(None, None, None, <<"_", "_">>),
      Args("Work", "high", None, NoneSeq),
      Args("general", None, "true", <<"A">>),
      Args("Work", "high", "false", <<"b">>) }

get_tasks(args) ==
    /\ up
    /\ req' = Request("get_tasks", 0, NoBody, args)
    /\ LET rows == OrderByCreatedDesc(Query(tasks, args))
       IN  resp' = [Response(200, "") EXCEPT !.count = Len(rows), !.tasks = ToDicts(rows)]
    /\ UNCHANGED <<tasks, categories, now, up, assigned>>

\* GET /api/tasks/<id>
get_task(task_id) ==
    /\ up
    /\ req' = Request("get_task", task_id, NoBody, NoArgs)
    /\ IF task_id \in Ids(tasks)
       THEN resp' = [Response(200, "") EXCEPT
                        !.tasks = <<ToDict(CHOOSE t \in tasks : t.id = task_id)>>]
       ELSE resp' = Response(404, "Resource not found")   \* errorhandler(404)
    /\ UNCHANGED <<tasks, categories, now, up, assigned>>

-----------------------------------------------------------------------------
\* /api/categories

CategoryDict(c) == [id |-> c.id, name |-> c.name, color |-> c.color, created_at |-> c.created_at]

get_categories ==
    /\ up
    /\ req' = Request("get_categories", 0, NoBody, NoArgs)
    /\ resp' = [Response(200, "") EXCEPT !.categories = {CategoryDict(c) : c \in categories}]
    /\ UNCHANGED <<tasks, categories, now, up, assigned>>

Named(name) == Body({"name"}, [NoVal EXCEPT !.name = name])

CategoryBodies ==
    { NoBody,
      Named(""),
      Body({"color"}, [NoVal EXCEPT !.color = "#000000"]),
      Named("Work"),
      Named("Home"),
      Body({"name", "color"}, [NoVal EXCEPT !.name = "Home", !.color = "#000000"]) }

create_category(data) ==
    /\ up
    /\ now < MaxClock
    /\ now' = now + 1
    /\ req' = Request("create_category", 0, data, NoArgs)
    /\ IF Falsy(data) \/ ~Truthy(Get(data, "name", None))
       THEN /\ resp' = Response(400, "Name is required")
            /\ categories' = categories
       ELSE LET category == [id |-> NextRowid(categories),
                             name |-> data.val.name,
                             color |-> Get(data, "color", "#3B82F6"),
                             created_at |-> now]
            IN  IF category.name \in Names(categories)
                THEN \* name is unique=True: commit raises, the handler rolls back
                     /\ resp' = Response(500, "IntegrityError")
                     /\ categories' = categories
                ELSE /\ categories' = categories \cup {category}
                     /\ resp' = [Response(201, "") EXCEPT
                                    !.categories = {CategoryDict(category)}]
    /\ UNCHANGED <<tasks, up, assigned>>

-----------------------------------------------------------------------------
Init ==
    /\ tasks = {}
    /\ categories = {}
    /\ now = 0
    /\ up = FALSE
    /\ assigned = {}
    /\ req = Request("none", 0, NoBody, NoArgs)
    /\ resp = Response(0, "")

\* Every request body and every id, a few queries.
Next ==
    \/ Startup
    \/ stats
    \/ \E args \in {NoArgs, Args("Work", None, "false", NoneSeq)} : get_tasks(args)
    \/ \E task_id \in {1} : get_task(task_id)
    \/ \E data \in CreateBodies : create_task(data)
    \/ \E task_id \in TaskIds, data \in UpdateBodies : update_task(task_id, data)
    \/ \E task_id \in TaskIds : delete_task(task_id)
    \/ get_categories
    \/ \E data \in {Named("Work")} : create_category(data)

Spec == Init /\ [][Next]_vars

\* Every query, the request bodies that differ in what a query tells apart.
NextQuery ==
    \/ Startup
    \/ stats
    \/ \E args \in ListArgs : get_tasks(args)
    \/ \E task_id \in TaskIds : get_task(task_id)
    \/ \E data \in {Titled(<<>>), Titled(<<"a">>), FullBody, BlankBody} : create_task(data)
    \/ \E task_id \in TaskIds, data \in {Completed} : update_task(task_id, data)
    \/ \E task_id \in TaskIds : delete_task(task_id)
    \/ get_categories
    \/ \E data \in {Named("Work")} : create_category(data)

SpecQuery == Init /\ [][NextQuery]_vars

\* Every category body, restarts, one task of each kind of request.
NextCategory ==
    \/ Startup
    \/ stats
    \/ \E args \in {NoArgs} : get_tasks(args)
    \/ \E task_id \in {1} : get_task(task_id)
    \/ \E data \in {Titled(<<"a">>)} : create_task(data)
    \/ \E task_id \in {1}, data \in {Completed} : update_task(task_id, data)
    \/ \E task_id \in {1} : delete_task(task_id)
    \/ get_categories
    \/ \E data \in CategoryBodies : create_category(data)

SpecCategory == Init /\ [][NextCategory]_vars
-----------------------------------------------------------------------------
\* The outcomes of the error taxonomy, as the handlers' responses show them.
NotFound(r) == r.status = 404 /\ ~r.success
Validation(r) == r.status = 400 /\ ~r.success
Internal(r) == r.status = 500 /\ ~r.success

Stored(ts, id) == CHOOSE t \in ts : t.id = id

\* The request body names a due_date string that is no ISO-8601 date.
BadDueDate(data) ==
    /\ data.json
    /\ "due_date" \in data.keys
    /\ data.val.due_date \notin {None, ""}
    /\ FromIsoformat(ReplaceZ(data.val.due_date)) = "ValueError"

\* C1: Update and Delete of an id that no stored task has answer NotFound
\* (404), never Internal (500), and leave the stored tasks as they were.
C1_MissingIdIsNotFound ==
    [][ (req'.op \in {"update_task", "delete_task"} /\ req'.id \notin Ids(tasks))
        => (NotFound(resp') /\ ~Internal(resp') /\ tasks' = tasks) ]_vars

\* C2: Update of a stored task with a due_date string that does not parse
\* answers Validation (400) and leaves the stored task exactly as it was.
C2_BadDueDateIsValidation ==
    [][ (req'.op = "update_task" /\ req'.id \in Ids(tasks) /\ BadDueDate(req'.data))
        => (Validation(resp') /\ tasks' = tasks) ]_vars

\* C3: creating a category under a name already stored fails with an outcome
\* other than Internal, changes no category, and no two categories share a name.
C3_DuplicateNameIsConflict ==
    [][ (req'.op = "create_category" /\ req'.data.json /\ "name" \in req'.data.keys
           /\ req'.data.val.name \in Names(categories))
        => /\ ~resp'.success
           /\ ~Internal(resp')
           /\ categories' = categories
           /\ \A c, d \in categories' : c.name = d.name => c = d ]_vars

Fields == {"title", "description", "completed", "priority", "category", "due_date"}

\* The value Update stores for a field the payload carries.
Supplied(data, f) ==
    IF f = "due_date"
    THEN IF data.val.due_date \in {None, ""} THEN None
         ELSE StoreDateTime(FromIsoformat(ReplaceZ(data.val.due_date)))
    ELSE data.val[f]

\* C5: Update keeps every field the payload does not carry, the id, created_at
\* and every other task; a successful Update stores each field the payload
\* carries and sets updated_at to the time of the request.
C5_MergePatch ==
    [][ (req'.op = "update_task" /\ req'.id \in Ids(tasks))
        => /\ req'.id \in Ids(tasks')
           /\ Ids(tasks') = Ids(tasks)
           /\ \A t \in tasks : t.id # req'.id => t \in tasks'
           /\ LET old == Stored(tasks, req'.id)
                  new == Stored(tasks', req'.id)
              IN  /\ new.created_at = old.created_at
                  /\ \A f \in Fields \ req'.data.keys : new[f] = old[f]
                  /\ resp'.status = 200 =>
                        /\ \A f \in Fields \cap req'.data.keys :
                              new[f] = Supplied(req'.data, f)
                        /\ new.updated_at = now
                        /\ resp'.tasks = <<ToDict(new)>> ]_vars

C5_Witness ==
    /\ req.op = "update_task" /\ req.data = Completed /\ resp.status = 200
    /\ \E t \in tasks :
          /\ t.id = req.id /\ t.completed
          /\ t.updated_at > t.created_at
          /\ t.title = <<"A", "b">> /\ t.category = "Work"
          /\ t.due_date = "2024-01-01T10:00:00"

\* C6: the id a successful Create assigns is greater than every id an earlier
\* Create assigned, deleted tasks included, and no two stored tasks share an id.
C6_IdsNeverReused ==
    [][ (req'.op = "create_task" /\ resp'.status = 201)
        => /\ \A i \in assigned : resp'.tasks[1].id > i
           /\ \A t, u \in tasks' : t.id = u.id => t = u ]_vars

\* C7: Stats answers total = the number of stored tasks, completed = the
\* number of them that are completed, pending = total - completed, and
\* completion_rate = 0 for no task and else completed/total*100 to the nearest
\* hundredth (33.33 for 1 of 3).
C7_Stats ==
    req.op = "stats" =>
        LET st == resp.stats
            total == Cardinality(tasks)
            done == Cardinality({t \in tasks : t.completed})
        IN  /\ resp.status = 200
            /\ st.total_tasks = total
            /\ st.completed_tasks = done
            /\ st.pending_tasks = total - done
            /\ total = 0 => st.completion_rate = 0
            /\ total > 0 =>
                  /\ 2 * (st.completion_rate * total - done * 10000) <= total
                  /\ 2 * (done * 10000 - st.completion_rate * total) <= total
            /\ (total = 3 /\ done = 1) => st.completion_rate = 3333

C7_Witness ==
    /\ req.op = "stats"
    /\ Cardinality(tasks) = 3
    /\ resp.stats.completed_tasks = 1
    /\ resp.stats.completion_rate = 3333

\* What a filter value that was sent asks of a task.
Satisfies(t, args, given(_), givenSeq(_)) ==
    /\ given(args.category) => t.category = args.category
    /\ given(args.priority) => t.priority = args.priority
    /\ args.completed \in {"true", "True"} => t.completed
    /\ args.completed = "false" => ~t.completed
    /\ givenSeq(args.search) =>
          Contains(t.title, args.search) \/ Contains(t.description, args.search)

Listed(given(_), givenSeq(_)) ==
    req.op = "get_tasks" =>
        /\ resp.status = 200
        /\ {resp.tasks[i] : i \in 1 .. Len(resp.tasks)}
              = {ToDict(t) : t \in {u \in tasks : Satisfies(u, req.args, given, givenSeq)}}
        /\ resp.count = Len(resp.tasks)
        /\ resp.count = Cardinality({resp.tasks[i].id : i \in 1 .. Len(resp.tasks)})

Sent(x) == x # None
SentSeq(x) == x # NoneSeq

DefaultNames == {"Work", "Personal", "Shopping", "Health", "General"}

\* C9: the first startup stores exactly the five default categories, a later
\* startup stores nothing, and once started each default name is stored once.
C9_SeedOnce ==
    /\ [](up => \A n \in DefaultNames : Cardinality({c \in categories : c.name = n}) = 1)
    /\ [][ req'.op = "startup" =>
             IF categories = {}
             THEN Names(categories') = DefaultNames /\ Cardinality(categories') = 5
             ELSE categories' = categories ]_vars

C9_Witness ==
    /\ req.op = "startup"
    /\ "Home" \in Names(categories)
    /\ tasks # {}
    /\ Cardinality(categories) = 6

\* C10: every stored task has a title that is neither null nor empty.
C10_TitleNonEmpty == \A t \in tasks : t.title # NoneSeq /\ Len(t.title) > 0
====
